---- MODULE Spec2Model ----
(***************************************************************************)
(* Model of the music player: the playback engine (src/src/player.rs,      *)
(* struct MusicPlayer) and the session controller with its playlist        *)
(* (src/src/gui.rs, struct MusicPlayerApp).                                *)
(*                                                                         *)
(* Conventions                                                             *)
(*   - Option<T>: None is -1, Some(v) is v (every T used here is a         *)
(*     non-negative integer).                                              *)
(*   - Paths are small positive integers.  Vec indices are 0-based as in   *)
(*     the source; At(v, i) reads v[i].                                    *)
(*   - Instants and playback positions are whole clock ticks of half a     *)
(*     second; track durations are whole seconds.                          *)
(*   - The rodio Sink is the external collaborator: count is the number of *)
(*     queued sources (empty() is count = 0), paused is its pause control, *)
(*     stopped is its stop control.  stop() only raises the control; the   *)
(*     audio thread drops the queued source a little later (SinkFlush),    *)
(*     and append() waits for that before queueing the new source.         *)
(***************************************************************************)
EXTENDS Integers, Sequences, FiniteSets, TLC

VARIABLES
    player,   \* the MusicPlayer struct
    app,      \* the MusicPlayerApp struct (all fields but player)
    now,      \* wall clock (std::time::Instant::now()), in ticks of 1/2 s
    hist,     \* history: the last operation, its result, and bookkeeping
    threads,  \* two threads inside the engine's methods (see SpecConcurrent)
    locals    \* the app method update() is inside: play_next_song's shuffle
              \* loop (see SpecShuffle) or add_to_playlist's file dialog

vars == <<player, app, now, hist, threads, locals>>

\* ---------------------------------------------------------------- bounds
MaxTime == 2      \* the clock stops advancing here
MaxSeek == 1      \* largest seek target offered to seek_to
MaxLen  == 3      \* longest playlist
MaxAdd  == 2      \* most files picked or dropped at once
MaxDraws == 2     \* most random draws one shuffle advance consumes

\* Units of time.  The clock, and with it every instant and every playback
\* position (play_position, the argument of seek_to, the value returned by
\* get_current_position), counts ticks of half a second.  The duration of a
\* track (total_duration(), song_duration in the player and in the app) is
\* a whole number of seconds, so a track of d seconds is 2 * d ticks long
\* and the fraction h / 2 of it is exactly h * d ticks.

\* The slider positions a seek is released at, in halves of the track
SeekHalves == {0, 1, 2}

None == -1

\* ------------------------------------------------------------ file system
\* Paths 1 and 2 decode; path 3 exists but cannot be decoded.
Paths == {1, 2, 3}
Openable == {1, 2}
\* Decoder::total_duration() of a path that decodes, in seconds
TrackDuration(path) == IF path = 1 THEN 2 ELSE 3

At(v, i) == v[i + 1]

\* ------------------------------------------------------------------ sink
\* Volumes are f32 values in tenths; NaN stands for the not-a-number value
\* and is never compared as a number.
NaN == 99999
SinkNew == [count |-> 0, paused |-> FALSE, stopped |-> FALSE, volume |-> 10]

sink_stop(s) == [s EXCEPT !.stopped = TRUE]
sink_append(s) == [s EXCEPT !.count = 1, !.stopped = FALSE]
sink_play(s) == [s EXCEPT !.paused = FALSE]
sink_pause(s) == [s EXCEPT !.paused = TRUE]
sink_empty(s) == s.count = 0
sink_is_paused(s) == s.paused
sink_set_volume(s, value) == [s EXCEPT !.volume = value]
sink_volume(s) == s.volume

\* f32::max and f32::min: a NaN operand is ignored
f32_max(a, b) == IF a = NaN THEN b ELSE IF b = NaN THEN a ELSE IF a > b THEN a ELSE b
f32_min(a, b) == IF a = NaN THEN b ELSE IF b = NaN THEN a ELSE IF a < b THEN a ELSE b

\* ---------------------------------------------------------- MusicPlayer
MusicPlayerNew ==
    [sink |-> SinkNew,
     current_song_index |-> None,
     is_song_finished |-> FALSE,
     current_file_path |-> None,
     song_duration |-> None,
     play_position |-> 0,
     last_position_update |-> 0]

\* Result of a call: the player afterwards and Ok/Err
Res(p, ok) == [player |-> p, ok |-> ok]

\* Variant of play_file that leaves the position where it was
play_file_keep_position(p, path) ==
    LET p1 == [p EXCEPT !.sink = sink_stop(@),
                        !.current_file_path = path,
                        !.last_position_update = now]
    IN  IF path \notin Openable
        THEN Res(p1, FALSE)
        ELSE Res([p1 EXCEPT !.song_duration = TrackDuration(path),
                            !.sink = sink_play(sink_append(@))], TRUE)

play_file(p, path) ==
    LET p1 == [p EXCEPT !.sink = sink_stop(@),
                        !.current_file_path = path,
                        !.play_position = 0,
                        !.last_position_update = now]
    IN  IF path \notin Openable
        THEN Res(p1, FALSE)
        ELSE Res([p1 EXCEPT !.song_duration = TrackDuration(path),
                            !.sink = sink_play(sink_append(@))], TRUE)

\* Variant of play_playlist_item that records the index only once the track
\* has started
play_playlist_item_index_on_success(p, path, index) ==
    LET r == play_file([p EXCEPT !.is_song_finished = FALSE], path)
    IN  IF r.ok THEN Res([r.player EXCEPT !.current_song_index = index], TRUE)
        ELSE r

play_playlist_item(p, path, index) ==
    play_file([p EXCEPT !.current_song_index = index,
                        !.is_song_finished = FALSE], path)

\* Variant of check_if_song_finished that reports a completion without
\* recording it in the flag
check_if_song_finished_unrecorded(p) ==
    [player |-> p,
     ret |-> (sink_empty(p.sink) /\ ~sink_is_paused(p.sink)) \/ p.is_song_finished]

\* check_if_song_finished: the player afterwards and the value returned
check_if_song_finished(p) ==
    LET empty == sink_empty(p.sink)
        paused == sink_is_paused(p.sink)
        song_completed == empty /\ ~paused
        p1 == IF song_completed THEN [p EXCEPT !.is_song_finished = TRUE] ELSE p
    IN  [player |-> p1, ret |-> p1.is_song_finished]

get_current_song_index(p) == p.current_song_index

pause(p) == [p EXCEPT !.sink = sink_pause(@)]

resume(p) == [p EXCEPT !.sink = sink_play(@)]

\* Variant of stop that also unloads the track
stop_unloading(p) ==
    [p EXCEPT !.sink = sink_stop(@), !.is_song_finished = TRUE,
              !.current_file_path = None, !.play_position = 0]

\* Variant of stop that leaves the finished flag alone
stop_sink_only(p) == [p EXCEPT !.sink = sink_stop(@)]

stop(p) == [p EXCEPT !.sink = sink_stop(@), !.is_song_finished = TRUE]

\* Variant of is_playing that ignores the finished flag
is_playing_sink_only(p) ==
    ~sink_is_paused(p.sink) /\ ~sink_empty(p.sink)

is_playing(p) ==
    LET paused == sink_is_paused(p.sink)
        empty == sink_empty(p.sink)
        finished == p.is_song_finished
    IN  ~paused /\ ~empty /\ ~finished

\* Variant of set_volume that passes the value on as it is
set_volume_unclamped(p, volume) == [p EXCEPT !.sink = sink_set_volume(@, volume)]

set_volume(p, volume) ==
    [p EXCEPT !.sink = sink_set_volume(@, f32_min(f32_max(volume, 0), 10))]

get_volume(p) == sink_volume(p.sink)

get_song_duration(p) == p.song_duration

\* Variant of get_current_position that does not restamp the last update
get_current_position_no_restamp(p) ==
    IF sink_is_paused(p.sink)
    THEN [player |-> p, ret |-> p.play_position]
    ELSE LET p1 == IF ~sink_is_paused(p.sink) /\ ~sink_empty(p.sink)
                   THEN [p EXCEPT !.play_position = @ + (now - p.last_position_update)]
                   ELSE p
         IN  [player |-> p1, ret |-> p1.play_position]

\* Variant of get_current_position that counts elapsed time while paused too
get_current_position_drifting(p) ==
    LET p1 == IF ~sink_empty(p.sink)
              THEN [p EXCEPT !.play_position = @ + (now - p.last_position_update),
                             !.last_position_update = now]
              ELSE p
    IN  [player |-> p1, ret |-> p1.play_position]

\* get_current_position: the player afterwards and the value returned
get_current_position(p) ==
    IF sink_is_paused(p.sink)
    THEN [player |-> p, ret |-> p.play_position]
    ELSE LET p1 == IF ~sink_is_paused(p.sink) /\ ~sink_empty(p.sink)
                   THEN [p EXCEPT !.play_position = @ + (now - p.last_position_update),
                                  !.last_position_update = now]
                   ELSE p
         IN  [player |-> p1, ret |-> p1.play_position]

\* Variant of seek_to: the position is stored before the loaded track is
\* looked up.
seek_to_store_first(p, position) ==
    LET p0 == [p EXCEPT !.play_position = position, !.last_position_update = now]
    IN  IF p.current_file_path = None THEN Res(p0, FALSE)
        ELSE IF p.current_song_index = None THEN Res(p0, FALSE)
        ELSE LET was_paused == sink_is_paused(p.sink)
                 p1 == [p0 EXCEPT !.sink = sink_stop(@)]
             IN  IF p.current_file_path \notin Openable
                 THEN Res(p1, FALSE)
                 ELSE Res([p1 EXCEPT !.sink = IF was_paused THEN sink_append(@)
                                              ELSE sink_play(sink_append(@))], TRUE)

seek_to(p, position) ==
    IF p.current_file_path = None THEN Res(p, FALSE)
    ELSE IF p.current_song_index = None THEN Res(p, FALSE)
    ELSE LET was_paused == sink_is_paused(p.sink)
             p1 == [p EXCEPT !.play_position = position,
                             !.last_position_update = now,
                             !.sink = sink_stop(@)]
         IN  IF p.current_file_path \notin Openable
             THEN Res(p1, FALSE)
             ELSE Res([p1 EXCEPT !.sink = IF was_paused THEN sink_append(@)
                                          ELSE sink_play(sink_append(@))], TRUE)

\* -------------------------------------------------------- MusicPlayerApp
\* usize::MAX (as large as the checker's integers go)
USizeMax == 2147483647
\* a - b on usize, wrapping
usize_sub(a, b) == IF a >= b THEN a - b ELSE USizeMax - (b - a) + 1
unwrap_or(opt, default) == IF opt = None THEN default ELSE opt

\* Vec::remove(index) and Vec::swap(i, j), 0-based
vec_remove(v, index) == SubSeq(v, 1, index) \o SubSeq(v, index + 2, Len(v))
vec_swap(v, i, j) ==
    [k \in 1 .. Len(v) |-> IF k = i + 1 THEN v[j + 1]
                           ELSE IF k = j + 1 THEN v[i + 1] ELSE v[k]]

\* What stands for the value of v[i] when i is out of range: the index
\* expression panics
Panic == -2
vec_index(v, i) == IF i < Len(v) THEN v[i + 1] ELSE Panic

\* The track current_playlist_index denotes (bounds-checked as in
\* play_current_song)
current_item(a) ==
    IF a.current_playlist_index # None /\ a.current_playlist_index < Len(a.playlist)
    THEN At(a.playlist, a.current_playlist_index)
    ELSE None

\* The state an app method works on: the app's fields and its player.
\* Of the app's fields, song_position (the displayed copy of the player's
\* position), volume, seek_position, pending_drops, config and notification
\* steer no playlist or playback decision and are left out.
St(a, p) == [app |-> a, player |-> p]

new(paths) ==
    [current_file |-> IF paths = <<>> THEN None ELSE paths[1],
     started_playing |-> paths # <<>>,
     playlist |-> paths,
     current_playlist_index |-> None,
     selected_song_index |-> None,
     is_playing |-> FALSE,
     song_duration |-> None,
     seeking |-> FALSE,
     shuffle_mode |-> FALSE]

\* Variant of play_current_song that indexes the playlist without the
\* bounds check
play_current_song_unchecked(S) ==
    LET index == S.app.current_playlist_index
    IN  IF index # None
        THEN LET path == vec_index(S.app.playlist, index)
             IN  St([S.app EXCEPT !.current_file = path, !.is_playing = TRUE],
                    play_playlist_item(S.player, path, index).player)
        ELSE S

play_current_song(S) ==
    LET index == S.app.current_playlist_index
    IN  IF index # None /\ index < Len(S.app.playlist)
        THEN LET path == At(S.app.playlist, index)
             IN  St([S.app EXCEPT !.current_file = path, !.is_playing = TRUE],
                    play_playlist_item(S.player, path, index).player)
        ELSE S

\* Variant of shuffle_loop that takes the first candidate without comparing
\* it with the current index
shuffle_loop_unchecked(random_index, current, draws) ==
    IF draws = <<>> THEN random_index ELSE draws[Len(draws)]

\* The rejection loop of shuffle mode, fed the values rng.random_range
\* returns, in order.  None if the loop is still running when the draws
\* run out.
RECURSIVE shuffle_loop(_, _, _)
shuffle_loop(random_index, current, draws) ==
    IF random_index = unwrap_or(current, USizeMax)
    THEN IF draws = <<>> THEN None
         ELSE shuffle_loop(Head(draws), current, Tail(draws))
    ELSE random_index

\* How many of the draws the loop consumes
RECURSIVE shuffle_used(_, _, _)
shuffle_used(random_index, current, draws) ==
    IF random_index = unwrap_or(current, USizeMax) /\ draws # <<>>
    THEN 1 + shuffle_used(Head(draws), current, Tail(draws))
    ELSE 0

\* Variants of next_index: sequential mode steps one past the last item
\* before it gives up / shuffle mode on a single item excludes the current
\* index like the longer lists do.
next_index_one_past(a, draws) ==
    IF a.shuffle_mode /\ a.playlist # <<>>
    THEN IF Len(a.playlist) > 1
         THEN shuffle_loop(unwrap_or(a.current_playlist_index, 0),
                           a.current_playlist_index, draws)
         ELSE 0
    ELSE IF a.current_playlist_index # None
         THEN IF a.current_playlist_index + 1 <= Len(a.playlist)
              THEN a.current_playlist_index + 1
              ELSE None
         ELSE IF a.playlist # <<>> THEN 0 ELSE None

next_index_single_excluded(a, draws) ==
    IF a.shuffle_mode /\ a.playlist # <<>>
    THEN IF Len(a.playlist) > 1
         THEN shuffle_loop(unwrap_or(a.current_playlist_index, 0),
                           a.current_playlist_index, draws)
         ELSE IF a.current_playlist_index = 0 THEN None ELSE 0
    ELSE IF a.current_playlist_index # None
         THEN IF a.current_playlist_index + 1 < Len(a.playlist)
              THEN a.current_playlist_index + 1
              ELSE None
         ELSE IF a.playlist # <<>> THEN 0 ELSE None

\* Variant of next_index that stays unset once the end was reached
next_index_no_restart(a, draws) ==
    IF a.shuffle_mode /\ a.playlist # <<>>
    THEN IF Len(a.playlist) > 1
         THEN shuffle_loop(unwrap_or(a.current_playlist_index, 0),
                           a.current_playlist_index, draws)
         ELSE 0
    ELSE IF a.current_playlist_index # None
         THEN IF a.current_playlist_index + 1 < Len(a.playlist)
              THEN a.current_playlist_index + 1
              ELSE None
         ELSE None

next_index(a, draws) ==
    IF a.shuffle_mode /\ a.playlist # <<>>
    THEN IF Len(a.playlist) > 1
         THEN shuffle_loop(unwrap_or(a.current_playlist_index, 0),
                           a.current_playlist_index, draws)
         ELSE 0
    ELSE IF a.current_playlist_index # None
         THEN IF a.current_playlist_index + 1 < Len(a.playlist)
              THEN a.current_playlist_index + 1
              ELSE None
         ELSE IF a.playlist # <<>> THEN 0 ELSE None

play_next_song(S, draws) ==
    LET next == next_index(S.app, draws)
        S1 == St([S.app EXCEPT !.current_playlist_index = next], S.player)
    IN  IF next # None
        THEN play_current_song(S1)
        ELSE St([S1.app EXCEPT !.is_playing = FALSE], S1.player)

\* Variant of add_to_playlist that selects the first item without starting it
add_to_playlist_autoselect(S, paths) ==
    LET a1 == [S.app EXCEPT !.playlist = @ \o paths]
    IN  IF Len(paths) > 0 /\ a1.current_playlist_index = None /\ a1.playlist # <<>>
        THEN St([a1 EXCEPT !.current_playlist_index = 0], S.player)
        ELSE St(a1, S.player)

\* paths: the audio files picked in the dialog (<<>>: cancelled)
add_to_playlist(S, paths) ==
    LET a1 == [S.app EXCEPT !.playlist = @ \o paths]
    IN  IF Len(paths) > 0 /\ a1.current_playlist_index = None /\ a1.playlist # <<>>
        THEN play_current_song(St([a1 EXCEPT !.current_playlist_index = 0], S.player))
        ELSE St(a1, S.player)

\* Variants of removed_current with one rule wrong: an index behind the
\* removed one is not shifted down / an index before it is shifted too /
\* the index of a removed current item never moves to the previous item.
removed_current_noshift(current, index, len) ==
    IF current = index
    THEN IF current > 0 THEN current - 1
         ELSE IF len > 1 THEN 0
         ELSE None
    ELSE current

removed_current_shiftall(current, index, len) ==
    IF current = index
    THEN IF current > 0 THEN current - 1
         ELSE IF len > 1 THEN 0
         ELSE None
    ELSE IF current > 0 THEN current - 1
    ELSE current

removed_current_stay(current, index, len) ==
    IF current = index
    THEN IF len > 1 THEN current
         ELSE None
    ELSE IF current > index THEN current - 1
    ELSE current

\* The new current_playlist_index when playlist[index] is removed
removed_current(current, index, len) ==
    IF current = index
    THEN IF current > 0 THEN current - 1
         ELSE IF len > 1 THEN 0
         ELSE None
    ELSE IF current > index THEN current - 1
    ELSE current

\* Variant of removed_selected that leaves the selection where it was
removed_selected_kept(index, len) == index

\* The new selected_song_index after playlist[index] was removed
removed_selected(index, len) ==
    IF len # 0
    THEN IF index < len THEN index ELSE len - 1
    ELSE None

remove_from_playlist(S) ==
    LET a == S.app
        index == a.selected_song_index
    IN  IF index # None /\ index < Len(a.playlist)
        THEN LET hit == index = a.current_playlist_index
                 current == IF a.current_playlist_index # None
                            THEN removed_current(a.current_playlist_index, index,
                                                 Len(a.playlist))
                            ELSE None
                 playlist == vec_remove(a.playlist, index)
             IN  St([a EXCEPT !.is_playing = IF hit THEN FALSE ELSE @,
                              !.current_playlist_index = current,
                              !.playlist = playlist,
                              !.selected_song_index =
                                  removed_selected(index, Len(playlist))],
                    IF hit THEN stop(S.player) ELSE S.player)
        ELSE S

\* Variant of swapped_current that follows the moved item only
swapped_current_oneway(current, index, other) ==
    IF current = None THEN None
    ELSE IF current = index THEN other
    ELSE current

\* The new current_playlist_index after playlist[index] and playlist[other]
\* were swapped
swapped_current(current, index, other) ==
    IF current = None THEN None
    ELSE IF current = index THEN other
    ELSE IF current = other THEN index
    ELSE current

move_up_in_playlist(S) ==
    LET a == S.app
        index == a.selected_song_index
    IN  IF index # None /\ index > 0 /\ index < Len(a.playlist)
        THEN St([a EXCEPT !.playlist = vec_swap(@, index, index - 1),
                          !.current_playlist_index = swapped_current(@, index, index - 1),
                          !.selected_song_index = index - 1],
                S.player)
        ELSE S

\* move_down_in_playlist panics when an index is selected on an empty
\* playlist: len() - 1 overflows (checked arithmetic), or wraps to usize::MAX
\* and Vec::swap is then out of range
move_down_traps(a) ==
    a.selected_song_index # None /\ Len(a.playlist) = 0

\* Variant of move_down_in_playlist that wraps the last item round to the top
move_down_in_playlist_wrapping(S) ==
    LET a == S.app
        index == a.selected_song_index
        len == Len(a.playlist)
    IN  IF index # None /\ index < len
        THEN LET other == IF index + 1 < len THEN index + 1 ELSE 0
             IN  St([a EXCEPT !.playlist = vec_swap(@, index, other),
                              !.current_playlist_index = swapped_current(@, index, other),
                              !.selected_song_index = other],
                    S.player)
        ELSE S

\* (a call that panics leaves the state as it found it)
move_down_in_playlist(S) ==
    LET a == S.app
        index == a.selected_song_index
    IN  IF index # None /\ ~move_down_traps(a)
           /\ index < usize_sub(Len(a.playlist), 1)
        THEN St([a EXCEPT !.playlist = vec_swap(@, index, index + 1),
                          !.current_playlist_index = swapped_current(@, index, index + 1),
                          !.selected_song_index = index + 1],
                S.player)
        ELSE S

\* Variant of check_song_finished that never polls the player
check_song_finished_unpolled(S, draws) == S

check_song_finished(S, draws) ==
    IF S.app.is_playing
    THEN LET r == check_if_song_finished(S.player)
             S1 == St(S.app, r.player)
         IN  IF r.ret THEN play_next_song(S1, draws) ELSE S1
    ELSE S

update_song_position(S) ==
    IF S.app.is_playing /\ ~S.app.seeking
    THEN LET r == get_current_position(S.player)
         IN  St([S.app EXCEPT !.song_duration = IF @ = None
                                                THEN get_song_duration(r.player)
                                                ELSE @],
                r.player)
    ELSE S

\* position_ratio is halves / 2.  The product position_ratio * duration is
\* not rounded: halves / 2 of song_duration seconds is halves * song_duration
\* ticks of half a second.
seek_to_position(S, halves) ==
    IF S.app.song_duration # None
    THEN LET position == halves * S.app.song_duration
         IN  St(S.app, seek_to(S.player, position).player)
    ELSE S

\* new_files: the audio files among the files dropped this frame
handle_dropped_files(S, new_files) ==
    IF new_files # <<>>
    THEN LET was_empty == S.app.playlist = <<>>
             a1 == [S.app EXCEPT !.playlist = @ \o new_files]
         IN  IF was_empty /\ a1.playlist # <<>>
             THEN play_current_song(St([a1 EXCEPT !.current_playlist_index = 0],
                                       S.player))
             ELSE St(a1, S.player)
    ELSE S

\* update(): the started_playing block
start_playing(S) ==
    IF S.app.started_playing
    THEN LET a1 == [S.app EXCEPT !.started_playing = FALSE]
         IN  IF a1.current_file # None
             THEN LET index == unwrap_or(a1.current_playlist_index, 0)
                      p1 == play_playlist_item(S.player, a1.current_file, index).player
                  IN  St([a1 EXCEPT !.current_playlist_index = index,
                                    !.is_playing = TRUE,
                                    !.song_duration = get_song_duration(p1)],
                         p1)
             ELSE St(a1, S.player)
    ELSE S

\* update() up to the finish poll: drops, pending start, position
update_before_poll(S, new_files) ==
    update_song_position(start_playing(handle_dropped_files(S, new_files)))

\* update() up to the widgets
update_head(S, new_files, draws) ==
    check_song_finished(update_before_poll(S, new_files), draws)

\* --------------------------------------------------------------- history
\* op/arg/ok/ret/pos describe the last operation and what it returned (the
\* session's frames without input, clicks and shuffle toggles are "other").
\* stopNoPlay: stop() was called and no play call has been made since.
\* cfTrue: check_if_song_finished returned true and no play call since.
\* frozen/resumedAt: the position frozen by the last pause() of a playing,
\*   fully accounted track, and the instant of the resume() that followed.
\* firstAfterResume: the last operation was the first get_current_position
\*   after that resume().
\* cur0, pl0: current_playlist_index and playlist as the last remove, move
\*   or Next found them (arg is the index it worked on; for Next, 1 in
\*   shuffle mode and 0 in sequential mode).
\* trap: the last operation panicked.
\* run: the number of play_next_song calls made in sequential mode since one
\*   found the current index unset, nothing else having changed the playlist
\*   or the current index in between (None: no such run is under way).
\* pausedPos: the value of the first get_current_position of the current
\*   paused span (None before it; a play, seek or resume ends the span).
\* pausedTick: the clock has advanced since that first call.
\* seekArg, seekAt: target and instant of the last seek_to on a loaded track
\*   (one whose stored path decodes), successful or not, kept
\*   while only the environment has moved since, and through the first
\*   get_current_position that follows.
\* wasPaused, wasPlaying: sink.is_paused() and is_playing() as the last
\*   seek_to found them.
\* playAt: instant of the last play call, kept like seekAt.
\* vol: the value the last get_volume returned.
\* volSet, volArg: set_volume has been called, and the last value it was
\*   given.  volKept: a play, stop or seek call has been made since.
\* afterStop: the last operation was the Play button, pressed in the frame
\*   after the one in which the Stop button was pressed.
\* firstPos, firstAt, reads: value and instant of the first
\*   get_current_position of the current playing stretch (calls made on a
\*   sink that is playing, with nothing but clock ticks in between), and the
\*   number of calls in the stretch so far (counted up to 3).
HistInit ==
    [op |-> "new", arg |-> None, ok |-> TRUE, ret |-> FALSE, pos |-> 0,
     stopNoPlay |-> FALSE, cfTrue |-> FALSE,
     frozen |-> None, resumedAt |-> None, firstAfterResume |-> FALSE,
     cur0 |-> None, pl0 |-> <<>>, trap |-> FALSE, run |-> None,
     pausedPos |-> None, pausedTick |-> FALSE,
     seekArg |-> None, seekAt |-> None,
     wasPaused |-> FALSE, wasPlaying |-> FALSE,
     playAt |-> None, firstPos |-> None, firstAt |-> None, reads |-> 0,
     vol |-> 0, volSet |-> FALSE, volArg |-> 0, volKept |-> FALSE,
     afterStop |-> FALSE]

\* a new operation: forget the previous operation's result
Op(h, name) ==
    [h EXCEPT !.op = name, !.arg = None, !.ok = TRUE, !.ret = FALSE, !.pos = 0,
              !.firstAfterResume = FALSE, !.cur0 = None, !.pl0 = <<>>,
              !.trap = FALSE, !.seekArg = None, !.seekAt = None,
              !.wasPaused = FALSE, !.wasPlaying = FALSE,
              !.playAt = None, !.firstPos = None, !.firstAt = None, !.reads = 0,
              !.vol = 0, !.afterStop = FALSE]

\* a step of the environment
EnvOp(h, name) ==
    [Op(h, name) EXCEPT !.seekArg = h.seekArg, !.seekAt = h.seekAt,
                        !.playAt = h.playAt]

NoSpan(h) == [h EXCEPT !.frozen = None, !.resumedAt = None]

\* a play, seek or resume ends the paused span
NoPausedSpan(h) == [h EXCEPT !.pausedPos = None, !.pausedTick = FALSE]

\* ------------------------------------------------------------ environment
\* The wall clock advances.
Tick ==
    /\ now < MaxTime
    /\ now' = now + 1
    /\ hist' = [EnvOp(hist, "tick") EXCEPT !.pausedTick = hist.pausedPos # None,
                                           !.firstPos = hist.firstPos,
                                           !.firstAt = hist.firstAt,
                                           !.reads = hist.reads]
    /\ UNCHANGED <<threads, locals, player, app>>

\* The queued source plays to its end (only an unpaused sink consumes it).
SongEnds ==
    /\ player.sink.count > 0
    /\ ~player.sink.paused
    /\ player' = [player EXCEPT !.sink.count = 0]
    /\ hist' = EnvOp(hist, "song_ends")
    /\ UNCHANGED <<threads, locals, app, now>>

\* The audio thread notices the stop control and drops the queued source.
SinkFlush ==
    /\ player.sink.count > 0
    /\ player.sink.stopped
    /\ player' = [player EXCEPT !.sink.count = 0]
    /\ hist' = EnvOp(hist, "sink_flush")
    /\ UNCHANGED <<threads, locals, app, now>>

\* ------------------------------------------------- the engine, stepwise
\* The engine's methods take &self and every field sits behind its own
\* Mutex, so two threads can be inside methods at once, interleaved between
\* any two field accesses.  Thread A makes stop() and play_playlist_item()
\* calls, thread B polls check_if_song_finished().
\*   call/path/index: A's current or last call and its arguments
\*   todo/done: the steps of that call still to do / done
\*   ok: the call has not returned Err;  prev: the call A made before it
\*   old: current_song_index when the call was entered
\*   poll: where B is in its poll;  empty/paused: the values it read;
\*   ret: what its last poll returned
ThreadsInit ==
    [call |-> "none", path |-> None, index |-> None,
     todo |-> <<>>, done |-> <<>>, ok |-> TRUE, prev |-> "none",
     old |-> None,
     poll |-> "idle", empty |-> FALSE, paused |-> FALSE, ret |-> FALSE]

\* stop(), statement by statement
stop_steps == <<"sink_stop", "flag_true">>

\* Variant of play_playlist_item_steps that records the index once the track
\* plays
play_playlist_item_steps_index_last ==
    <<"flag_false", "sink_stop", "path", "position", "instant", "open",
      "duration", "append", "play", "index">>

\* play_playlist_item() with play_file() inlined, statement by statement
play_playlist_item_steps ==
    <<"index", "flag_false", "sink_stop", "path", "position", "instant", "open",
      "duration", "append", "play">>

\* Sink::append first waits until a stopped sink has dropped what it held
step_enabled(p, name) ==
    name = "append" => ~(p.sink.stopped /\ p.sink.count > 0)

\* File::open / Decoder::new fail: the call returns Err at this step
step_fails(name, path) ==
    name = "open" /\ path \notin Openable

\* the engine after one statement
step(p, name, path, index) ==
    CASE name = "index" -> [p EXCEPT !.current_song_index = index]
      [] name = "flag_false" -> [p EXCEPT !.is_song_finished = FALSE]
      [] name = "flag_true" -> [p EXCEPT !.is_song_finished = TRUE]
      [] name = "sink_stop" -> [p EXCEPT !.sink = sink_stop(@)]
      [] name = "path" -> [p EXCEPT !.current_file_path = path]
      [] name = "position" -> [p EXCEPT !.play_position = 0]
      [] name = "instant" -> [p EXCEPT !.last_position_update = now]
      [] name = "open" -> p
      [] name = "duration" -> [p EXCEPT !.song_duration = TrackDuration(path)]
      [] name = "append" -> [p EXCEPT !.sink = sink_append(@)]
      [] name = "play" -> [p EXCEPT !.sink = sink_play(@)]

\* Thread A enters a call
ABegin(call, path, index, steps) ==
    /\ threads.todo = <<>>
    /\ threads' = [threads EXCEPT !.call = call, !.path = path, !.index = index,
                                  !.todo = steps, !.done = <<>>, !.ok = TRUE,
                                  !.prev = threads.call,
                                  !.old = player.current_song_index]
    /\ UNCHANGED <<player, app, now, hist, locals>>

ACallStop == ABegin("stop", None, None, stop_steps)

ACallPlay(path, index) ==
    ABegin("play_playlist_item", path, index, play_playlist_item_steps)

\* Thread A executes its next statement
AStep ==
    /\ threads.todo # <<>>
    /\ LET name == Head(threads.todo)
       IN  /\ step_enabled(player, name)
           /\ IF step_fails(name, threads.path)
              THEN /\ threads' = [threads EXCEPT !.todo = <<>>, !.ok = FALSE,
                                                 !.done = Append(@, name)]
                   /\ player' = player
              ELSE /\ threads' = [threads EXCEPT !.todo = Tail(@),
                                                 !.done = Append(@, name)]
                   /\ player' = step(player, name, threads.path, threads.index)
    /\ UNCHANGED <<app, now, hist, locals>>

\* Thread B: check_if_song_finished(), statement by statement
BPollEmpty ==
    /\ threads.poll = "idle"
    /\ threads' = [threads EXCEPT !.poll = "paused", !.empty = sink_empty(player.sink)]
    /\ UNCHANGED <<player, app, now, hist, locals>>

BPollPaused ==
    /\ threads.poll = "paused"
    /\ threads' = [threads EXCEPT !.poll = "set", !.paused = sink_is_paused(player.sink)]
    /\ UNCHANGED <<player, app, now, hist, locals>>

BPollSet ==
    /\ threads.poll = "set"
    /\ threads' = [threads EXCEPT !.poll = "return"]
    /\ player' = IF threads.empty /\ ~threads.paused
                 THEN [player EXCEPT !.is_song_finished = TRUE]
                 ELSE player
    /\ UNCHANGED <<app, now, hist, locals>>

BPollReturn ==
    /\ threads.poll = "return"
    /\ threads' = [threads EXCEPT !.poll = "idle", !.ret = player.is_song_finished,
                                  !.empty = FALSE, !.paused = FALSE]
    /\ UNCHANGED <<player, app, now, hist, locals>>

\* ------------------------------------------- the shuffle loop, stepwise
\* play_next_song in shuffle mode on more than one item, one loop step at a
\* time.
\*   pc: "idle" outside the call, "test" at the while condition, "draw" in
\*       the loop body, "done" after the loop
\*   random_index: the local of that name
\*   drawn: the number of random_range calls made so far in this call
\*       (counted up to MaxDraws)
LocalsInit == [pc |-> "idle", random_index |-> None, drawn |-> 0]

\* Variant of random_range that always returns the lowest value
random_range_lowest(len) == {0}

\* the values rng.random_range(0..len) can return
random_range(len) == 0 .. len - 1

\* let mut random_index = self.current_playlist_index.unwrap_or(0)
ShuffleEnter ==
    /\ locals.pc = "idle"
    /\ app.shuffle_mode
    /\ Len(app.playlist) > 1
    /\ locals' = [pc |-> "test",
                  random_index |-> unwrap_or(app.current_playlist_index, 0),
                  drawn |-> 0]
    /\ UNCHANGED <<player, app, now, hist, threads>>

\* while random_index == self.current_playlist_index.unwrap_or(usize::MAX)
ShuffleTest ==
    /\ locals.pc = "test"
    /\ locals' = [locals EXCEPT !.pc =
                      IF locals.random_index
                             = unwrap_or(app.current_playlist_index, USizeMax)
                      THEN "draw" ELSE "done"]
    /\ UNCHANGED <<player, app, now, hist, threads>>

\* random_index = rng.random_range(0..self.playlist.len()), returning r
ShuffleDraw(r) ==
    /\ locals.pc = "draw"
    /\ r \in random_range(Len(app.playlist))
    /\ locals' = [locals EXCEPT !.pc = "test", !.random_index = r,
                                !.drawn = IF @ < MaxDraws THEN @ + 1 ELSE @]
    /\ UNCHANGED <<player, app, now, hist, threads>>

\* the rest of play_next_song: the index is stored and the song played
ShuffleExit ==
    /\ locals.pc = "done"
    /\ LET S1 == St([app EXCEPT !.current_playlist_index = locals.random_index],
                    player)
           F == play_current_song(S1)
       IN  /\ app' = F.app
           /\ player' = F.player
    /\ locals' = [locals EXCEPT !.pc = "idle"]
    /\ UNCHANGED <<now, hist, threads>>

\* ------------------------------------------- the engine driven by its API
PlayFile(path) ==
    LET r == play_file(player, path)
    IN  /\ player' = r.player
        /\ hist' = [NoPausedSpan(NoSpan(Op(hist, "play_file"))) EXCEPT
                       !.arg = path, !.ok = r.ok, !.playAt = now,
                       !.volKept = TRUE,
                       !.stopNoPlay = FALSE, !.cfTrue = FALSE]
        /\ UNCHANGED <<threads, locals, app, now>>

PlayPlaylistItem(path, index) ==
    LET r == play_playlist_item(player, path, index)
    IN  /\ player' = r.player
        /\ hist' = [NoPausedSpan(NoSpan(Op(hist, "play_playlist_item"))) EXCEPT
                       !.arg = index, !.ok = r.ok, !.playAt = now,
                       !.volKept = TRUE,
                       !.stopNoPlay = FALSE, !.cfTrue = FALSE]
        /\ UNCHANGED <<threads, locals, app, now>>

CheckIfSongFinished ==
    LET r == check_if_song_finished(player)
    IN  /\ player' = r.player
        /\ hist' = [Op(hist, "check_if_song_finished") EXCEPT
                       !.ret = r.ret, !.cfTrue = hist.cfTrue \/ r.ret]
        /\ UNCHANGED <<threads, locals, app, now>>

Pause ==
    /\ player' = pause(player)
    /\ hist' = [Op(hist, "pause") EXCEPT
                   !.frozen = IF /\ ~player.sink.paused
                                 /\ player.sink.count > 0
                                 /\ ~player.sink.stopped
                                 /\ player.last_position_update = now
                              THEN player.play_position
                              ELSE IF player.sink.paused /\ hist.resumedAt = None
                                   THEN hist.frozen ELSE None,
                   !.resumedAt = None]
    /\ UNCHANGED <<threads, locals, app, now>>

Resume ==
    /\ player' = resume(player)
    /\ hist' = [NoPausedSpan(Op(hist, "resume")) EXCEPT
                   !.resumedAt = IF hist.frozen # None /\ hist.resumedAt = None
                                 THEN now ELSE hist.resumedAt]
    /\ UNCHANGED <<threads, locals, app, now>>

Stop ==
    /\ player' = stop(player)
    /\ hist' = [NoSpan(Op(hist, "stop")) EXCEPT !.stopNoPlay = TRUE,
                                              !.volKept = TRUE]
    /\ UNCHANGED <<threads, locals, app, now>>

IsPlaying ==
    /\ hist' = [Op(hist, "is_playing") EXCEPT !.ret = is_playing(player)]
    /\ UNCHANGED <<threads, locals, player, app, now>>

GetCurrentPosition ==
    LET r == get_current_position(player)
        first == hist.op # "get_current_position"
        playing == player.sink.count > 0 /\ ~player.sink.paused
        begun == hist.firstAt # None
    IN  /\ player' = r.player
        /\ hist' = [Op(hist, "get_current_position") EXCEPT
                       !.pos = r.ret,
                       !.firstAfterResume = hist.resumedAt # None,
                       !.pausedPos = IF player.sink.paused /\ @ = None
                                     THEN r.ret ELSE @,
                       !.seekArg = IF first THEN hist.seekArg ELSE None,
                       !.seekAt = IF first THEN hist.seekAt ELSE None,
                       !.playAt = IF first THEN hist.playAt ELSE None,
                       !.firstPos = IF ~playing THEN None
                                    ELSE IF begun THEN hist.firstPos ELSE r.ret,
                       !.firstAt = IF ~playing THEN None
                                   ELSE IF begun THEN hist.firstAt ELSE now,
                       !.reads = IF ~playing THEN 0
                                 ELSE IF ~begun THEN 1
                                 ELSE IF hist.reads < 3 THEN hist.reads + 1 ELSE 3]
        /\ UNCHANGED <<threads, locals, app, now>>

SeekTo(position) ==
    LET r == seek_to(player, position)
    IN  /\ player' = r.player
        /\ hist' = [NoPausedSpan(NoSpan(Op(hist, "seek_to"))) EXCEPT
                       !.arg = position, !.ok = r.ok, !.volKept = TRUE,
                       !.seekArg = IF player.current_file_path \in Openable
                                   THEN position ELSE None,
                       !.seekAt = IF player.current_file_path \in Openable
                                  THEN now ELSE None,
                       !.wasPaused = sink_is_paused(player.sink),
                       !.wasPlaying = is_playing(player)]
        /\ UNCHANGED <<threads, locals, app, now>>

\* The values set_volume is given: below, inside and above the range, the
\* infinities (as huge values) and NaN
Volumes == {-1000, -5, 0, 3, 10, 15, 1000, NaN}

SetVolume(volume) ==
    /\ player' = set_volume(player, volume)
    /\ hist' = [Op(hist, "set_volume") EXCEPT
                   !.volSet = TRUE, !.volArg = volume, !.volKept = FALSE]
    /\ UNCHANGED <<threads, locals, app, now>>

GetVolume ==
    /\ hist' = [Op(hist, "get_volume") EXCEPT !.vol = get_volume(player)]
    /\ UNCHANGED <<threads, locals, player, app, now>>

\* The playlist indices the engine is handed (it only stores them)
Indices == {0, 1}

InitPlayer ==
    /\ player = MusicPlayerNew
    /\ app = new(<<>>)
    /\ now = 0
    /\ hist = HistInit
    /\ threads = ThreadsInit
    /\ locals = LocalsInit

NextPlayer ==
    \/ \E path \in Paths : PlayFile(path)
    \/ \E path \in Paths, index \in Indices : PlayPlaylistItem(path, index)
    \/ CheckIfSongFinished
    \/ Pause
    \/ Resume
    \/ Stop
    \/ IsPlaying
    \/ GetCurrentPosition
    \/ \E position \in 0 .. MaxSeek : SeekTo(position)
    \/ Tick
    \/ SongEnds
    \/ SinkFlush

SpecPlayer == InitPlayer /\ [][NextPlayer]_vars

\* The engine driven by volume writes and reads among track changes
NextVolume ==
    \/ \E volume \in Volumes : SetVolume(volume)
    \/ GetVolume
    \/ \E path \in Paths, index \in Indices : PlayPlaylistItem(path, index)
    \/ Stop
    \/ \E position \in 0 .. MaxSeek : SeekTo(position)
    \/ SongEnds
    \/ SinkFlush

SpecVolume == InitPlayer /\ [][NextVolume]_vars

\* The engine shared by a calling thread and a polling thread
NextConcurrent ==
    \/ ACallStop
    \/ \E path \in Paths, index \in Indices : ACallPlay(path, index)
    \/ AStep
    \/ BPollEmpty
    \/ BPollPaused
    \/ BPollSet
    \/ BPollReturn
    \/ SongEnds
    \/ SinkFlush

SpecConcurrent == InitPlayer /\ [][NextConcurrent]_vars

\* ------------------------------------------------- the session controller
\* One action is one call of MusicPlayerApp::update: the head (drops, pending
\* start, position, finish poll) followed by the widget code reacting to at
\* most one input.
SeqsUpTo(S, n) == UNION {[1 .. k -> S] : k \in 0 .. n}

\* The audio files the user picks from in a session
Library == {1, 3}

\* The non-empty batches of audio files that still fit the playlist
Additions(a) ==
    {fs \in SeqsUpTo(Library, MaxAdd) : fs # <<>> /\ Len(a.playlist) + Len(fs) <= MaxLen}

\* The draws a play_next_song on app state a consumes: those sequences of
\* values of random_range(0..len), of the form "the first draw k - 1 times,
\* then any draw", on which the loop exits exactly at the last draw
Draws(a) ==
    IF a.shuffle_mode /\ Len(a.playlist) > 1
    THEN LET start == unwrap_or(a.current_playlist_index, 0)
             current == a.current_playlist_index
             range == 0 .. Len(a.playlist) - 1
             cands == {<<>>} \cup
                      {[i \in 1 .. k |-> IF i < k THEN first ELSE last] :
                           k \in 1 .. MaxDraws, first \in range, last \in range}
         IN  {d \in cands :
                  /\ shuffle_loop(start, current, d) # None
                  /\ shuffle_used(start, current, d) = Len(d)}
    ELSE {<<>>}

\* The states the head of update() can leave when new_files were dropped.
\* update() is not called again while an earlier call is still blocked in
\* the file dialog.
Heads(new_files) ==
    LET S2 == update_before_poll(St(app, player), new_files)
        ds == IF S2.app.is_playing /\ check_if_song_finished(S2.player).ret
              THEN Draws(S2.app) ELSE {<<>>}
    IN  IF locals.pc = "dialog" THEN {}
        ELSE {check_song_finished(S2, d) : d \in ds}

Commit(S, h) ==
    /\ app' = S.app
    /\ player' = S.player
    /\ hist' = h
    /\ now' = now
    /\ threads' = threads
    /\ locals' = locals

\* The finish poll in the head of update() calls play_next_song
HeadAdvances(new_files) ==
    LET S2 == update_before_poll(St(app, player), new_files)
    IN  S2.app.is_playing /\ check_if_song_finished(S2.player).ret

\* hist.run across code that is not play_next_song, taking app state a0 to a1
RunKeep(run, a0, a1) ==
    IF /\ a1.playlist = a0.playlist
       /\ a1.current_playlist_index = a0.current_playlist_index
    THEN run ELSE None

\* hist.run across a play_next_song called on app state a
RunAdvance(run, a) ==
    IF a.shuffle_mode THEN None
    ELSE IF a.current_playlist_index = None THEN 1
    ELSE IF run # None THEN run + 1
    ELSE None

\* hist.run after the head of update()
HeadRun(new_files) ==
    LET a2 == update_before_poll(St(app, player), new_files).app
        run == RunKeep(hist.run, app, a2)
    IN  IF HeadAdvances(new_files) THEN RunAdvance(run, a2) ELSE run

\* the history entry of an update() whose head left S and whose widget code
\* (not play_next_song) left F
SessionOp(name, new_files, S, F) ==
    [Op(hist, name) EXCEPT !.run = RunKeep(HeadRun(new_files), S.app, F.app)]

\* the history entry of a remove or move on state S, leaving F
PlaylistOp(S, F, name) ==
    [SessionOp(name, <<>>, S, F) EXCEPT !.arg = S.app.selected_song_index,
                                        !.cur0 = S.app.current_playlist_index,
                                        !.pl0 = S.app.playlist]

Idle ==
    \E S \in Heads(<<>>) : Commit(S, SessionOp("other", <<>>, S, S))

DropFiles ==
    \E new_files \in Additions(app) :
        \E S \in Heads(new_files) : Commit(S, SessionOp("drop", new_files, S, S))

\* The Add Songs button: update() runs its head and add_to_playlist opens
\* the modal file dialog.  pick_files() blocks the GUI thread until the user
\* answers; the audio thread runs on meanwhile (SongEnds, SinkFlush).
AddSongs ==
    \E S \in Heads(<<>>) :
        /\ app' = S.app
        /\ player' = S.player
        /\ hist' = SessionOp("dialog", <<>>, S, S)
        /\ locals' = [LocalsInit EXCEPT !.pc = "dialog"]
        /\ UNCHANGED <<now, threads>>

\* pick_files() returns: the picked files (<<>>: the dialog was cancelled)
\* are pushed, playback may start, and the frame ends.
DialogReturns ==
    /\ locals.pc = "dialog"
    /\ \E paths \in {<<>>} \cup Additions(app) :
           LET F == add_to_playlist(St(app, player), paths)
           IN  /\ app' = F.app
               /\ player' = F.player
               /\ hist' = [Op(hist, "add") EXCEPT
                               !.run = RunKeep(hist.run, app, F.app)]
    /\ locals' = LocalsInit
    /\ UNCHANGED <<now, threads>>

Remove ==
    \E S \in Heads(<<>>) :
        LET F == remove_from_playlist(S)
        IN  /\ S.app.selected_song_index # None
            /\ Commit(F, PlaylistOp(S, F, "remove"))

MoveUp ==
    \E S \in Heads(<<>>) :
        LET F == move_up_in_playlist(S)
        IN  /\ S.app.selected_song_index # None
            /\ Commit(F, PlaylistOp(S, F, "move_up"))

MoveDown ==
    \E S \in Heads(<<>>) :
        LET F == move_down_in_playlist(S)
        IN  /\ S.app.selected_song_index # None
            /\ Commit(F, [PlaylistOp(S, F, "move_down") EXCEPT
                              !.trap = move_down_traps(S.app)])

Click ==
    \E S \in Heads(<<>>) : \E index \in 0 .. Len(S.app.playlist) - 1 :
        LET F == St([S.app EXCEPT !.selected_song_index = index], S.player)
        IN  Commit(F, SessionOp("other", <<>>, S, F))

DoubleClick ==
    \E S \in Heads(<<>>) : \E index \in 0 .. Len(S.app.playlist) - 1 :
        LET F == St([S.app EXCEPT !.selected_song_index = index,
                                  !.current_playlist_index = index,
                                  !.started_playing = TRUE,
                                  !.current_file = At(S.app.playlist, index)],
                    S.player)
        IN  Commit(F, SessionOp("double_click", <<>>, S, F))

DragStarted ==
    \E S \in Heads(<<>>) :
        LET F == St([S.app EXCEPT !.seeking = TRUE], S.player)
        IN  Commit(F, SessionOp("drag_started", <<>>, S, F))

DragStopped ==
    \E S \in Heads(<<>>) : \E halves \in SeekHalves :
        LET F == seek_to_position(St([S.app EXCEPT !.seeking = FALSE], S.player),
                                  halves)
        IN  /\ S.app.seeking
            /\ Commit(F, SessionOp("drag_stopped", <<>>, S, F))

\* The audio thread runs while the GUI thread is inside update().  The
\* engine states it can leave between two of the frame's sink calls: it may
\* have played the queued source to its end (as SongEnds) or dropped a
\* stopped one (as SinkFlush).
AudioRuns(p) ==
    IF p.sink.count > 0 /\ (~p.sink.paused \/ p.sink.stopped)
    THEN {p, [p EXCEPT !.sink.count = 0]}
    ELSE {p}

\* The Pause button.  The track may end after the head's finish poll has
\* read the sink and before pause() is called; the poll has then not seen
\* the end and pause() leaves a sink that is paused and empty.  (In every
\* other frame, an end of the track inside the call leaves the state that a
\* SongEnds or SinkFlush before or after the frame leaves: only pause()
\* keeps the audio thread from consuming the source afterwards.)
PauseButton ==
    \E S \in Heads(<<>>) : \E p \in AudioRuns(S.player) :
        LET F == St([S.app EXCEPT !.is_playing = FALSE], pause(p))
        IN  /\ S.app.is_playing
            /\ Commit(F, SessionOp("pause", <<>>, S, F))

PlayButton ==
    \E S \in Heads(<<>>) :
        LET F == St([S.app EXCEPT !.is_playing = TRUE], resume(S.player))
        IN  /\ ~S.app.is_playing
            /\ S.app.current_playlist_index # None
            /\ Commit(F, [SessionOp("play", <<>>, S, F) EXCEPT
                              !.afterStop = hist.op = "stop"])

StopButton ==
    \E S \in Heads(<<>>) :
        LET F == St([S.app EXCEPT !.is_playing = FALSE], stop(S.player))
        IN  Commit(F, SessionOp("stop", <<>>, S, F))

NextButton ==
    \E S \in Heads(<<>>) : \E draws \in Draws(S.app) :
        Commit(play_next_song(S, draws),
               [Op(hist, "next") EXCEPT
                   !.arg = IF S.app.shuffle_mode THEN 1 ELSE 0,
                   !.cur0 = S.app.current_playlist_index,
                   !.pl0 = S.app.playlist,
                   !.run = RunAdvance(HeadRun(<<>>), S.app)])

ShuffleButton ==
    \E S \in Heads(<<>>) :
        LET F == St([S.app EXCEPT !.shuffle_mode = ~@], S.player)
        IN  Commit(F, SessionOp("other", <<>>, S, F))

Init ==
    /\ player = MusicPlayerNew
    /\ \E paths \in SeqsUpTo(Library, MaxAdd) : app = new(paths)
    /\ now = 0
    /\ hist = HistInit
    /\ threads = ThreadsInit
    /\ locals = LocalsInit

Next ==
    \/ Idle
    \/ DropFiles
    \/ AddSongs
    \/ DialogReturns
    \/ Remove
    \/ MoveUp
    \/ MoveDown
    \/ Click
    \/ DoubleClick
    \/ NextButton
    \/ ShuffleButton
    \/ SongEnds
    \/ SinkFlush

\* The session of playlist editing and navigation, with the finish poll
\* running on every frame
Spec == Init /\ [][Next]_vars

\* The same with the transport buttons
NextTransport == Next \/ PauseButton \/ PlayButton \/ StopButton

SpecTransport == Init /\ [][NextTransport]_vars

\* The same with the seek slider
NextSeek == NextTransport \/ DragStarted \/ DragStopped

SpecSeek == Init /\ [][NextSeek]_vars

\* The values current_playlist_index can be given on a playlist of at most
\* MaxLen items: unset, in range, or past the end
IndexValues == {None} \cup (0 .. MaxLen)

\* play_next_song entered in shuffle mode on any playlist of more than one
\* item with any current_playlist_index
InitShuffle ==
    /\ player = MusicPlayerNew
    /\ \E paths \in SeqsUpTo(Library, MaxLen), current \in IndexValues :
           /\ Len(paths) > 1
           /\ app = [new(paths) EXCEPT !.started_playing = FALSE,
                                       !.shuffle_mode = TRUE,
                                       !.current_playlist_index = current]
    /\ now = 0
    /\ hist = HistInit
    /\ threads = ThreadsInit
    /\ locals = LocalsInit

NextShuffle ==
    \/ ShuffleEnter
    \/ ShuffleTest
    \/ \E r \in 0 .. MaxLen - 1 : ShuffleDraw(r)
    \/ ShuffleExit

\* Every step of the loop is eventually taken, and a draw that can come up
\* infinitely often does come up
FairShuffle ==
    /\ WF_vars(ShuffleTest)
    /\ WF_vars(ShuffleExit)
    /\ \A r \in 0 .. MaxLen - 1 : SF_vars(ShuffleDraw(r))

SpecShuffle == InitShuffle /\ [][NextShuffle]_vars /\ FairShuffle

\* play_current_song called with any playlist and any index value
PlayCurrentSong ==
    LET S == St(app, player)
    IN  Commit(play_current_song(S),
               [Op(hist, "play_current_song") EXCEPT
                   !.cur0 = app.current_playlist_index,
                   !.pl0 = app.playlist])

InitLookup ==
    /\ player = MusicPlayerNew
    /\ \E paths \in SeqsUpTo(Library, MaxLen), current \in IndexValues :
           app = [new(paths) EXCEPT !.started_playing = FALSE,
                                    !.current_playlist_index = current]
    /\ now = 0
    /\ hist = HistInit
    /\ threads = ThreadsInit
    /\ locals = LocalsInit

NextLookup ==
    \/ PlayCurrentSong
    \/ SongEnds

SpecLookup == InitLookup /\ [][NextLookup]_vars

\* A session left to itself: the app is started with some files, the user
\* may double-click one row in the first frame, and from then on update()
\* runs every 100 ms (request_repaint_after) with no input while the sink
\* plays what it is given.
FirstDoubleClick == hist.op = "new" /\ DoubleClick

InitAutoplay ==
    /\ player = MusicPlayerNew
    /\ \E paths \in SeqsUpTo(Library, MaxLen) : app = new(paths)
    /\ now = 0
    /\ hist = HistInit
    /\ threads = ThreadsInit
    /\ locals = LocalsInit

NextAutoplay ==
    \/ FirstDoubleClick
    \/ Idle
    \/ SongEnds
    \/ SinkFlush

\* frames keep coming, and a queued track drains from the sink
FairAutoplay ==
    /\ WF_vars(Idle)
    /\ WF_vars(SongEnds)
    /\ WF_vars(SinkFlush)

SpecAutoplay == InitAutoplay /\ [][NextAutoplay]_vars /\ FairAutoplay

\* A session on files that all decode, of two different lengths: the app is
\* started with some of them; frames, the Next and shuffle buttons, and the
\* sink playing tracks to their end
InitDuration ==
    /\ player = MusicPlayerNew
    /\ \E paths \in SeqsUpTo(Openable, MaxAdd) : app = new(paths)
    /\ now = 0
    /\ hist = HistInit
    /\ threads = ThreadsInit
    /\ locals = LocalsInit

NextDuration ==
    \/ Idle
    \/ NextButton
    \/ ShuffleButton
    \/ SongEnds

SpecDuration == InitDuration /\ [][NextDuration]_vars

\* ================================================================ claims
\* ------------------------------------------------------------ playlist

\* C1: after removing the current item, when it is not the last item, the
\* current index keeps its value and the current item is the track that
\* followed the removed one, wherever the current item was.
C1_RemoveCurrentSelectsFollowing ==
    (/\ hist.op = "remove"
     /\ hist.cur0 # None
     /\ hist.arg = hist.cur0
     /\ hist.cur0 < Len(hist.pl0) - 1)
    => /\ app.current_playlist_index = hist.cur0
       /\ current_item(app) = At(hist.pl0, hist.cur0 + 1)

\* C2: in every reachable state of the session the current index is unset
\* or a valid offset into the playlist.
C2_CurrentIndexInRange ==
    \/ app.current_playlist_index = None
    \/ /\ 0 <= app.current_playlist_index
       /\ app.current_playlist_index < Len(app.playlist)

\* an item before the current, last item was removed, and the current index
\* followed it down to the new last position
C2_Witness ==
    /\ hist.op = "remove"
    /\ hist.cur0 = Len(hist.pl0) - 1
    /\ hist.arg < hist.cur0
    /\ app.current_playlist_index = Len(app.playlist) - 1

\* C3: removing an item other than the current one leaves the current item
\* the same track: the index drops by one if the removed item was before it
\* and is unchanged if it was after it; an unset index stays unset.
C3_RemoveOtherKeepsCurrent ==
    (hist.op = "remove" /\ hist.arg # hist.cur0)
    => /\ Len(app.playlist) = Len(hist.pl0) - 1
       /\ IF hist.cur0 = None
          THEN app.current_playlist_index = None
          ELSE /\ app.current_playlist_index =
                      IF hist.arg < hist.cur0 THEN hist.cur0 - 1 ELSE hist.cur0
               /\ current_item(app) = At(hist.pl0, hist.cur0)

\* an item before the current one was removed
C3_Witness ==
    /\ hist.op = "remove"
    /\ hist.cur0 # None
    /\ hist.arg < hist.cur0
    /\ Len(hist.pl0) = 3

\* C4: removing the current item when it is the last element moves the
\* current index to the new tail, or unsets it if it was the only item.
C4_RemoveCurrentTail ==
    (/\ hist.op = "remove"
     /\ hist.cur0 # None
     /\ hist.arg = hist.cur0
     /\ hist.cur0 = Len(hist.pl0) - 1)
    => IF Len(hist.pl0) > 1
       THEN /\ app.current_playlist_index = hist.cur0 - 1
            /\ app.current_playlist_index = Len(app.playlist) - 1
       ELSE /\ app.current_playlist_index = None
            /\ current_item(app) = None

\* the current item was the last of several and was removed
C4_Witness ==
    /\ hist.op = "remove"
    /\ hist.cur0 # None
    /\ hist.arg = hist.cur0
    /\ hist.cur0 = Len(hist.pl0) - 1
    /\ Len(hist.pl0) > 1

\* C11: a move at a boundary index (up at index 0, down at the last index),
\* on any playlist, does not panic and leaves the playlist order, the current
\* index and the selection as they were.
C11_MoveAtBoundaryNoEffect ==
    (\/ hist.op = "move_up" /\ hist.arg = 0
     \/ hist.op = "move_down" /\ hist.arg = Len(hist.pl0) - 1)
    => /\ ~hist.trap
       /\ app.playlist = hist.pl0
       /\ app.current_playlist_index = hist.cur0
       /\ app.selected_song_index = hist.arg

\* Move Down was pressed on the single item of a playlist, which is current
C11_Witness ==
    /\ hist.op = "move_down"
    /\ Len(hist.pl0) = 1
    /\ hist.arg = 0
    /\ hist.cur0 = 0

\* the other index of the pair a successful move swaps
C12_Other == IF hist.op = "move_up" THEN hist.arg - 1 ELSE hist.arg + 1

\* C12: after a move that is not at a boundary the playlist is the previous
\* one with exactly the two adjacent items exchanged, the current index is
\* exchanged with them when it was one of the two and unchanged otherwise,
\* and the current item is the same track as before.
C12_MoveSwapsAndFollows ==
    (\/ hist.op = "move_up" /\ hist.arg > 0
     \/ hist.op = "move_down" /\ hist.arg < Len(hist.pl0) - 1)
    => /\ Len(app.playlist) = Len(hist.pl0)
       /\ \A k \in 0 .. Len(hist.pl0) - 1 :
              At(app.playlist, k) =
                  IF k = hist.arg THEN At(hist.pl0, C12_Other)
                  ELSE IF k = C12_Other THEN At(hist.pl0, hist.arg)
                  ELSE At(hist.pl0, k)
       /\ app.current_playlist_index =
              IF hist.cur0 = hist.arg /\ hist.cur0 # None THEN C12_Other
              ELSE IF hist.cur0 = C12_Other THEN hist.arg
              ELSE hist.cur0
       /\ hist.cur0 # None
              => current_item(app) = At(hist.pl0, hist.cur0)

\* the item above the current one was moved down past it, the two being
\* different tracks
C12_Witness ==
    /\ hist.op = "move_down"
    /\ hist.cur0 = hist.arg + 1
    /\ Len(hist.pl0) = 3
    /\ At(hist.pl0, hist.arg) # At(hist.pl0, hist.cur0)

\* ---------------------------------------------------------- navigation

\* C13: the n-th of the sequential play_next_song calls made from an unset
\* current index selects and starts item n - 1 of the playlist, for n up to
\* the length; the call after the last item leaves the current index unset
\* and playback off (no wraparound).
C13_SequentialRun ==
    hist.run # None
    => IF hist.run <= Len(app.playlist)
       THEN /\ app.current_playlist_index = hist.run - 1
            /\ app.current_file = At(app.playlist, hist.run - 1)
            /\ player.current_file_path = At(app.playlist, hist.run - 1)
            /\ player.current_song_index = hist.run - 1
       ELSE /\ hist.run = Len(app.playlist) + 1
            /\ app.current_playlist_index = None
            /\ ~app.is_playing

\* a run through a playlist of three items has gone past its end
C13_Witness ==
    /\ hist.run = 4
    /\ Len(app.playlist) = 3

\* C14: Next in shuffle mode on a playlist of more than one item with the
\* current index set selects a valid index other than the current one; with
\* two items it selects the other one.
C14_ShuffleNeverRepeats ==
    (/\ hist.op = "next"
     /\ hist.arg = 1
     /\ Len(hist.pl0) > 1
     /\ hist.cur0 # None)
    => /\ app.current_playlist_index \in 0 .. Len(hist.pl0) - 1
       /\ app.current_playlist_index # hist.cur0
       /\ Len(hist.pl0) = 2 => app.current_playlist_index = 1 - hist.cur0

\* shuffle Next on two items went from the second to the first
C14_Witness ==
    /\ hist.op = "next"
    /\ hist.arg = 1
    /\ Len(hist.pl0) = 2
    /\ hist.cur0 = 1
    /\ app.current_playlist_index = 0

\* C15: Next in shuffle mode on a playlist of one item selects and starts
\* index 0 whatever the current index was; on the empty playlist it leaves
\* the current index unset and playback off.
C15_ShuffleSingleAndEmpty ==
    (/\ hist.op = "next"
     /\ hist.arg = 1
     /\ Len(hist.pl0) <= 1)
    => IF Len(hist.pl0) = 1
       THEN /\ app.current_playlist_index = 0
            /\ app.current_file = At(hist.pl0, 0)
            /\ player.current_file_path = At(hist.pl0, 0)
            /\ app.is_playing
       ELSE /\ app.current_playlist_index = None
            /\ ~app.is_playing

\* shuffle Next on a single item that was already current
C15_Witness ==
    /\ hist.op = "next"
    /\ hist.arg = 1
    /\ Len(hist.pl0) = 1
    /\ hist.cur0 = 0
    /\ app.current_playlist_index = 0

\* -------------------------------------------------------------- engine

\* C5: from stop() until the next play call, is_playing() is false and
\* check_if_song_finished() is true, whatever the state stop() found.
C5_StoppedUntilPlay ==
    hist.stopNoPlay
    => /\ ~is_playing(player)
       /\ check_if_song_finished(player).ret

\* a poll some time after a stop() that found the track paused: the sink
\* has been resumed and still holds the track
C5_Witness ==
    /\ hist.stopNoPlay
    /\ hist.op = "check_if_song_finished"
    /\ hist.ret
    /\ player.sink.count > 0
    /\ ~player.sink.paused

\* C6: a successful play_file after stop() leaves the finished flag false,
\* so check_if_song_finished() is false and is_playing() is true while the
\* new track is queued.
C6_PlayFileClearsFinished ==
    [][(hist.stopNoPlay /\ hist'.op = "play_file" /\ hist'.ok)
       => /\ ~player'.is_song_finished
          /\ ~check_if_song_finished(player').ret
          /\ is_playing(player')]_vars

\* C7: the first get_current_position() after a resume() returns the
\* position frozen by the pause plus the time elapsed since the resume.
C7_ResumeFromFrozen ==
    (/\ hist.firstAfterResume
     /\ player.sink.count > 0
     /\ ~player.sink.paused)
    => hist.pos = hist.frozen + (now - hist.resumedAt)

\* C8: is_playing() returns true exactly when the sink is not paused, the
\* sink is not empty and the finished flag is false.
C8_IsPlayingIff ==
    hist.op = "is_playing"
    => (hist.ret <=> (/\ ~player.sink.paused
                      /\ player.sink.count # 0
                      /\ ~player.is_song_finished))

\* is_playing() returned true
C8_Witness ==
    /\ hist.op = "is_playing"
    /\ hist.ret

\* C9: check_if_song_finished() returns true exactly when the sink is empty
\* and not paused or the finished flag was set; a true result leaves the flag
\* set; and once it has returned true it returns true on every later call
\* until a play call.
C9_CheckFinishedSticky ==
    [][hist'.op = "check_if_song_finished"
       => /\ hist'.ret <=> \/ (player.sink.count = 0 /\ ~player.sink.paused)
                           \/ player.is_song_finished
          /\ hist'.ret => player'.is_song_finished
          /\ hist.cfTrue => hist'.ret]_vars

\* a completion was observed, and a later poll of the paused sink is true
C9_Witness ==
    /\ hist.op = "check_if_song_finished"
    /\ hist.ret
    /\ hist.cfTrue
    /\ ~hist.stopNoPlay
    /\ player.sink.paused

\* C10: after a successful seek_to the finished flag is false.
C10_SeekClearsFinished ==
    (hist.op = "seek_to" /\ hist.ok) => ~player.is_song_finished

\* C16: every get_current_position() of one paused span (no play, seek or
\* resume since its first call) returns the value the first one returned,
\* however far the clock has moved.
C16_PausedPositionFrozen ==
    (/\ hist.op = "get_current_position"
     /\ player.sink.paused
     /\ hist.pausedPos # None)
    => hist.pos = hist.pausedPos

\* a later call of a paused span, made after the clock moved, on a track
\* paused part way through
C16_Witness ==
    /\ hist.op = "get_current_position"
    /\ player.sink.paused
    /\ player.sink.count > 0
    /\ hist.pausedTick
    /\ hist.pausedPos > 0

\* C17: seek_to(p) on a loaded track (the stored path is one that decodes,
\* whether play_playlist_item or play_file loaded it) stores p as the
\* position, leaves the sink holding the track and paused exactly if it was
\* paused before, and, when the engine was playing, leaves it playing with
\* the finished flag false; the first get_current_position() after it
\* returns at least p and at most p plus the time elapsed since the seek.
C17_SeekSetsPosition ==
    /\ (hist.op = "seek_to" /\ player.current_file_path \in Openable)
       => /\ player.play_position = hist.arg
          /\ get_current_position(player).ret = hist.arg
          /\ player.sink.count > 0
          /\ player.sink.paused = hist.wasPaused
          /\ hist.wasPlaying => ~player.is_song_finished /\ is_playing(player)
    /\ (hist.op = "get_current_position" /\ hist.seekAt # None)
       => /\ hist.pos >= hist.seekArg
          /\ hist.pos <= hist.seekArg + (now - hist.seekAt)

\* C18: seek_to on an engine that never loaded a track fails and leaves
\* every field of the engine, and its sink, as they were.
C18_SeekUnloadedNoChange ==
    [][(hist'.op = "seek_to" /\ player.current_file_path = None)
       => /\ ~hist'.ok
          /\ player' = player]_vars

\* a failed seek on an engine that never loaded a track and whose sink had
\* been paused
C18_Witness ==
    /\ hist.op = "seek_to"
    /\ ~hist.ok
    /\ player.current_file_path = None
    /\ player.sink.paused

\* C19: after play_playlist_item(path, index) the engine's index is index
\* and the finished flag is false, whether the track opened or not.
C19_IndexRecordedFirst ==
    hist.op = "play_playlist_item"
    => /\ get_current_song_index(player) = hist.arg
       /\ ~player.is_song_finished

\* play_playlist_item failed to open its track at index 1
C19_Witness ==
    /\ hist.op = "play_playlist_item"
    /\ ~hist.ok
    /\ hist.arg = 1
    /\ player.current_song_index = 1

\* C20: after play_file failed to open its track the engine is stopped and
\* unloaded: is_playing() is false and the stored path is not the path that
\* failed.
C20_OpenErrorLeavesUnloaded ==
    (hist.op = "play_file" /\ ~hist.ok)
    => /\ ~is_playing(player)
       /\ player.current_file_path # hist.arg

\* C21: stop() writes nothing but the sink's stop control and the finished
\* flag: position, stored path, duration and index are as before.
C21_StopFrame ==
    [][hist'.op = "stop"
       => /\ player'.play_position = player.play_position
          /\ player'.last_position_update = player.last_position_update
          /\ player'.current_file_path = player.current_file_path
          /\ player'.song_duration = player.song_duration
          /\ player'.current_song_index = player.current_song_index
          /\ player'.sink.paused = player.sink.paused
          /\ player'.is_song_finished]_vars

\* stop() was called on a loaded track part way through
C21_Witness ==
    /\ hist.op = "stop"
    /\ player.play_position > 0
    /\ player.current_file_path \in Openable
    /\ player.current_song_index # None
    /\ player.song_duration # None

\* C25: pause() on an engine that is paused or stopped (not playing), and
\* resume() on an engine whose sink holds nothing, change none of: the result
\* of is_playing(), the result of the next check_if_song_finished(), the
\* position, the finished flag.
C25_PauseResumeNoOps ==
    [][(\/ hist'.op = "pause" /\ (sink_is_paused(player.sink) \/ ~is_playing(player))
        \/ hist'.op = "resume" /\ sink_empty(player.sink))
       => /\ is_playing(player') = is_playing(player)
          /\ check_if_song_finished(player').ret = check_if_song_finished(player).ret
          /\ get_current_position(player').ret = get_current_position(player).ret
          /\ player'.is_song_finished = player.is_song_finished]_vars

\* C29: seek_to succeeds exactly when a track is loaded (the stored path is
\* one that decodes), whether or not a playlist index was ever recorded.
C29_SeekNeedsOnlyTrack ==
    [][hist'.op = "seek_to"
       => (hist'.ok <=> player.current_file_path \in Openable)]_vars

\* C27: every play call, successful or not and whatever the engine was
\* doing, leaves the position at zero; the first get_current_position()
\* after it returns no more than the time elapsed since the call, and exactly
\* that time when the sink is playing.
C27_PlayResetsPosition ==
    /\ hist.op \in {"play_file", "play_playlist_item"}
       => /\ player.play_position = 0
          /\ get_current_position(player).ret = 0
    /\ (hist.op = "get_current_position" /\ hist.playAt # None)
       => /\ hist.pos <= now - hist.playAt
          /\ (player.sink.count > 0 /\ ~player.sink.paused)
                 => hist.pos = now - hist.playAt

\* the first position read after a play call made later than the engine's
\* start, with the clock moved since the call
C27_Witness ==
    /\ hist.op = "get_current_position"
    /\ hist.playAt > 0
    /\ hist.playAt < now
    /\ hist.pos = now - hist.playAt

\* C28: every get_current_position() of a playing stretch returns the value
\* of the stretch's first call plus the time elapsed since that call, so the
\* results never decrease and no interval is counted twice.
C28_PlayingPositionExact ==
    (hist.op = "get_current_position" /\ hist.firstAt # None)
    => /\ hist.pos = hist.firstPos + (now - hist.firstAt)
       /\ hist.pos >= hist.firstPos

\* the third call of a stretch, two ticks after the first
C28_Witness ==
    /\ hist.op = "get_current_position"
    /\ hist.reads = 3
    /\ now - hist.firstAt >= 2

\* C26: the volume is always within [0.0, 1.0]; once written it is the last
\* written value clamped to that range, through any play, stop and seek
\* calls; get_volume() returns it.
C26_VolumeClamped ==
    /\ get_volume(player) >= 0
    /\ get_volume(player) <= 10
    /\ (hist.volSet /\ hist.volArg # NaN)
       => get_volume(player) = IF hist.volArg < 0 THEN 0
                               ELSE IF hist.volArg > 10 THEN 10
                               ELSE hist.volArg
    /\ hist.op = "get_volume" => hist.vol = get_volume(player)

\* a value above the range was written, a track was then started, and the
\* volume read back is 1.0
C26_Witness ==
    /\ hist.op = "get_volume"
    /\ hist.volArg = 15
    /\ hist.volKept
    /\ hist.vol = 10
    /\ player.sink.count > 0

\* C24: appending (Add Songs or a drop) puts the new files at the end of the
\* playlist in the order given, leaving the items already there in place, and
\* leaves the current index alone; the one exception is an unset index that
\* the controller sets to 0 while it starts playback of that item.
C24_AppendKeepsOrderAndIndex ==
    \A paths \in Additions(app) :
        \A F \in {add_to_playlist(St(app, player), paths),
                  handle_dropped_files(St(app, player), paths)} :
            /\ F.app.playlist = app.playlist \o paths
            /\ \/ F.app.current_playlist_index = app.current_playlist_index
               \/ /\ app.current_playlist_index = None
                  /\ F.app.current_playlist_index = 0
                  /\ F.app.is_playing
                  /\ F.app.current_file = At(F.app.playlist, 0)
                  /\ F.player.current_song_index = 0
                  /\ F.player.current_file_path = At(F.app.playlist, 0)
                  /\ ~F.player.is_song_finished

\* files were dropped on a playlist whose run had ended: the index is still
\* unset and nothing plays
C24_Witness ==
    /\ hist.op = "drop"
    /\ app.current_playlist_index = None
    /\ ~app.is_playing
    /\ Len(app.playlist) >= 2

\* the indices a play_next_song on app state a can select
NextOutcomes(a) == {next_index(a, draws) : draws \in Draws(a)}

\* C30: in shuffle mode on more than one item the indices Next can select
\* are all the indices but the current one: all of them when the current
\* index is unset.
C30_ShuffleReachesAllOthers ==
    (app.shuffle_mode /\ Len(app.playlist) > 1)
    => NextOutcomes(app) =
           (0 .. Len(app.playlist) - 1) \ {app.current_playlist_index}

\* the position of a statement among those thread A has executed in its
\* call, 0 when it has not been executed
DoneAt(name) ==
    IF \E i \in 1 .. Len(threads.done) : threads.done[i] = name
    THEN CHOOSE i \in 1 .. Len(threads.done) : threads.done[i] = name
    ELSE 0

\* C22: with check_if_song_finished polled from another thread, once a
\* play_playlist_item that directly followed a stop() has returned Ok and its
\* track is still queued in the sink, the finished flag is false.
C22_FinishedClearAfterPlay ==
    ( /\ threads.call = "play_playlist_item"
      /\ threads.prev = "stop"
      /\ threads.todo = <<>>
      /\ threads.ok
      /\ player.sink.count > 0
      /\ ~player.sink.stopped )
    => ~player.is_song_finished

\* C23: inside play_playlist_item the index is written before the finished
\* flag is cleared, and the flag is cleared before the sink is stopped,
\* appended to or played; from the index write on, and so whenever the new
\* track is in the sink, current_song_index holds the new index.
C23_IndexThenClearThenPlayback ==
    threads.call = "play_playlist_item"
    => /\ DoneAt("flag_false") > 0 => DoneAt("index") \in 1 .. DoneAt("flag_false") - 1
       /\ \A name \in {"sink_stop", "append", "play"} :
              DoneAt(name) > 0
              => DoneAt("flag_false") \in 1 .. DoneAt(name) - 1
       /\ DoneAt("index") > 0 => player.current_song_index = threads.index
       /\ DoneAt("append") > 0 => player.current_song_index = threads.index

\* a poll is under way while the call that replaces index 0 by index 1 has
\* appended its track and has not yet returned
C23_Witness ==
    /\ threads.call = "play_playlist_item"
    /\ threads.old = 0
    /\ threads.index = 1
    /\ DoneAt("append") > 0
    /\ threads.todo # <<>>
    /\ threads.poll # "idle"
    /\ player.sink.count > 0

\* C31: under fair draws the rejection loop of shuffle mode, once entered on
\* a playlist of more than one item with any current index (set, unset or
\* past the end), leaves the loop with an index inside the playlist.
C31_ShuffleLoopTerminates ==
    (locals.pc = "test")
    ~> (locals.pc = "done" /\ locals.random_index \in 0 .. Len(app.playlist) - 1)

\* the loop has drawn the current index, drawn again and left with another
C31_Witness ==
    /\ locals.pc = "done"
    /\ locals.drawn >= 2
    /\ locals.random_index # app.current_playlist_index
    /\ locals.random_index \in 0 .. Len(app.playlist) - 1

\* C32: play_current_song never indexes the playlist out of range: with the
\* current index unset or past the end it leaves everything as it was, and
\* with an index in range it plays the item at that index.
C32_LookupNeverTraps ==
    LET S == St(app, player)
        F == play_current_song(S)
        index == app.current_playlist_index
    IN  /\ F.app.current_file # Panic
        /\ (index = None \/ index >= Len(app.playlist)) => F = S
        /\ (index # None /\ index < Len(app.playlist))
               => /\ F.app.current_file = At(app.playlist, index)
                  /\ F.player.current_file_path = At(app.playlist, index)
        /\ (index = None \/ index >= Len(app.playlist)) <=> current_item(app) = None

\* play_current_song was called with an index past the end of a non-empty
\* playlist and changed nothing
C32_Witness ==
    /\ hist.op = "play_current_song"
    /\ hist.cur0 # None
    /\ hist.cur0 >= Len(hist.pl0)
    /\ hist.pl0 # <<>>
    /\ app.playlist = hist.pl0
    /\ app.current_playlist_index = hist.cur0
    /\ ~app.is_playing

\* C33: when add_to_playlist adds songs while the current index is unset,
\* the first added song becomes the current item and is played, whether or
\* not the playlist already held items.
C33_AddStartsFirstAdded ==
    (locals.pc = "dialog" /\ app.current_playlist_index = None)
    => \A paths \in Additions(app) :
           LET F == add_to_playlist(St(app, player), paths)
           IN  /\ F.app.is_playing
               /\ F.app.current_playlist_index = Len(app.playlist)
               /\ F.app.current_file = paths[1]
               /\ F.player.current_file_path = paths[1]

\* C34: in the session the selected index is unset or inside the playlist,
\* so it is unset whenever the playlist is empty, and move_down_in_playlist
\* never computes len - 1 on an empty playlist.
C34_SelectionInRange ==
    /\ app.selected_song_index = None
           \/ app.selected_song_index \in 0 .. Len(app.playlist) - 1
    /\ ~move_down_traps(app)
    /\ ~hist.trap

\* the selected, only item was removed: the playlist is empty and nothing
\* is selected
C34_Witness ==
    /\ hist.op = "remove"
    /\ hist.arg = 0
    /\ Len(hist.pl0) = 1
    /\ app.playlist = <<>>
    /\ app.selected_song_index = None

\* C35: whenever the app's current index is set, no start is pending and a
\* track is loaded and queued in the sink, the index the player recorded
\* equals the app's current index, also after items were removed or moved.
C35_EngineIndexFollows ==
    ( /\ app.current_playlist_index # None
      /\ ~app.started_playing
      /\ player.current_file_path # None
      /\ player.sink.count > 0
      /\ ~player.sink.stopped )
    => get_current_song_index(player) = app.current_playlist_index

\* C36: when Stop was pressed and then Play, the frame that follows leaves
\* the current index as it was: its poll does not advance the playlist.
C36_StopPlayKeepsIndex ==
    [][(hist.afterStop /\ hist'.op = "other")
       => app'.current_playlist_index = app.current_playlist_index]_vars

\* C37: in sequential mode with no input, a frame that finds a current
\* index i either keeps it or starts track i + 1, or unsets the index after
\* the last track and clears is_playing; and when every queued track drains,
\* the index ends up unset with is_playing false and stays so.
C37_AutoplayRunsToEnd ==
    /\ [][(hist'.op = "other" /\ app.current_playlist_index # None)
           => \/ /\ app'.current_playlist_index = app.current_playlist_index
                 /\ player'.current_song_index \in {None, app.current_playlist_index}
              \/ /\ app'.current_playlist_index = app.current_playlist_index + 1
                 /\ app'.current_playlist_index < Len(app.playlist)
                 /\ app'.is_playing
                 /\ player'.current_song_index = app'.current_playlist_index
                 /\ player'.current_file_path
                        = At(app.playlist, app'.current_playlist_index)
              \/ /\ app'.current_playlist_index = None
                 /\ app.current_playlist_index = Len(app.playlist) - 1
                 /\ ~app'.is_playing]_vars
    /\ <>[](app.current_playlist_index = None /\ ~app.is_playing)

\* the run through a list of MaxLen tracks that started at its second track
\* has ended after the last one
C37_Witness ==
    /\ Len(app.playlist) = MaxLen
    /\ app.current_playlist_index = None
    /\ ~app.is_playing
    /\ ~app.started_playing
    /\ app.selected_song_index = 1
    /\ player.current_song_index = MaxLen - 1

\* C38: when the track the app last started failed to open and the sink has
\* dropped what it held, the next frame's poll returns true and, in
\* sequential mode, moves the current index on, whatever state the player
\* was in before the failed play.
C38_FailedPlaySkipped ==
    ( /\ app.is_playing
      /\ ~app.started_playing
      /\ app.current_playlist_index # None
      /\ player.current_file_path \in Paths \ Openable
      /\ player.sink.count = 0 )
    => /\ check_if_song_finished(player).ret
       /\ ~app.shuffle_mode
              => \A S \in Heads(<<>>) :
                     S.app.current_playlist_index # app.current_playlist_index

\* C39: Next in sequential mode with the current index unset on a non-empty
\* playlist selects and starts item 0; with the index set it selects the
\* following item, or unsets the index after the last one.  Repeated Next
\* therefore cycles unset, 0, 1, ..., len - 1, unset.
C39_NextRestartsAtZero ==
    (hist.op = "next" /\ hist.arg = 0)
    => IF hist.cur0 = None
       THEN IF hist.pl0 # <<>>
            THEN /\ app.current_playlist_index = 0
                 /\ app.is_playing
                 /\ app.current_file = hist.pl0[1]
                 /\ player.current_song_index = 0
                 /\ player.current_file_path = hist.pl0[1]
            ELSE app.current_playlist_index = None /\ ~app.is_playing
       ELSE IF hist.cur0 + 1 < Len(hist.pl0)
            THEN app.current_playlist_index = hist.cur0 + 1
            ELSE app.current_playlist_index = None /\ ~app.is_playing

\* Next was pressed on a playlist of several items whose run had ended, and
\* item 0 plays again
C39_Witness ==
    /\ hist.op = "next"
    /\ hist.arg = 0
    /\ hist.cur0 = None
    /\ Len(hist.pl0) >= 2
    /\ app.current_playlist_index = 0
    /\ app.is_playing

\* C40: a frame that polls with is_playing true and starts no track leaves
\* the app's cached song_duration equal to the player's duration of the
\* track that is loaded.
C40_CachedDurationCurrent ==
    [][( /\ hist'.op = "other"
         /\ app'.is_playing
         /\ player'.sink.count > 0
         /\ player'.current_file_path = player.current_file_path
         /\ player'.current_song_index = player.current_song_index )
       => app'.song_duration = get_song_duration(player')]_vars

====
